---- MODULE Spec2Model ----
(***************************************************************************)
(* Kettle Updater (pico_updater.py): the update worker of the GUI, the     *)
(* archive fetcher, the mpremote invocation and the log files, as a state  *)
(* machine.  Strings are sequences of tokens; a token is a substring that  *)
(* the string operations of the program never split.                       *)
(***************************************************************************)
EXTENDS Integers, Sequences, FiniteSets, TLC

\* ------------------------------------------------------------------ bounds
MaxRuns == 2        \* runs started by on_run in one behaviour
MaxRefLen == 3      \* tokens in a repository reference (NormSpec)
MaxSubLen == 2      \* tokens in the text of the sub-folder field
MaxPorts == 2       \* serial connections the platform enumerates (LocSpec)
MaxTime == 2        \* seconds of wall-clock time in which runs may start

None == "None"

\* ------------------------------------------------- repository references
SSH == "git@github.com:"
WEB == "https://github.com"
SLASH == "/"
DOTGIT == ".git"
RefTokens == {SSH, WEB, SLASH, DOTGIT, "acme"}

SeqsUpTo(S, n) == UNION {[1..k -> S] : k \in 0..n}

RefInputs == SeqsUpTo(RefTokens, MaxRefLen)

\* str.endswith(".git"): ".git" is a token and no other token ends in "git"
EndsWithGit(r) == Len(r) > 0 /\ r[Len(r)] = DOTGIT

\* str.startswith("git@github.com:")
StartsWithSsh(r) == Len(r) > 0 /\ r[1] = SSH

\* str.replace("git@github.com:", "https://github.com/"): every occurrence
RECURSIVE ReplaceSsh(_)
ReplaceSsh(r) ==
    IF r = <<>> THEN <<>>
    ELSE IF Head(r) = SSH THEN <<WEB, SLASH>> \o ReplaceSsh(Tail(r))
    ELSE <<Head(r)>> \o ReplaceSsh(Tail(r))

\* str.rstrip("/")
RECURSIVE RStripSlash(_)
RStripSlash(r) ==
    IF r # <<>> /\ r[Len(r)] = SLASH THEN RStripSlash(SubSeq(r, 1, Len(r) - 1))
    ELSE r

\* str.lstrip("/")
RECURSIVE LStripSlash(_)
LStripSlash(r) ==
    IF r # <<>> /\ Head(r) = SLASH THEN LStripSlash(Tail(r))
    ELSE r

\* str.strip("/")
StripSlash(r) == RStripSlash(LStripSlash(r))

\* download_github_zip, lines 122-126, in the order of the code
NormalizeRepo(r) ==
    LET r1 == IF EndsWithGit(r) THEN SubSeq(r, 1, Len(r) - 1) ELSE r
        r2 == IF StartsWithSsh(r1) THEN ReplaceSsh(r1) ELSE r1
    IN  RStripSlash(r2)

\* line 128
ZipUrl(r, branch) == NormalizeRepo(r) \o <<"/archive/refs/heads/", branch, ".zip">>

\* the web reference equivalent to an SSH-style one: host prefix rewritten
WebForm(r) == <<WEB, SLASH>> \o Tail(r)


\* ------------------------------------------------------------ input sets
RepoInputs == {<<>>, <<SSH, "acme", DOTGIT>>}
BranchInputs == {"", "dev"}
SubTokens == {SLASH, "fw"}
SubInputs == SeqsUpTo(SubTokens, MaxSubLen)
\* names of the top-level directories an extracted archive may hold
TopNames == {"acme-dev", "extra"}

\* ------------------------------------------------------ serial connections
\* line 107: 0x2E8A, 0x1D50, 0x10C4, 0x0403
KnownVids == {11914, 7504, 4292, 1027}
\* p.vid of a connection that is no USB device
NoVid == -1
\* line 110; a string is the sequence of its fragments, " " and "-" included
Keywords == {<<"kettle">>, <<"pico">>, <<"raspberry">>, <<"rp2040">>,
             <<"usb", " ", "serial">>, <<"usb", "-", "serial">>}

\* str.lower, line 105, fragment by fragment
LowerAtom(a) ==
    CASE a = "Pico" -> "pico"
      [] a = "USB" -> "usb"
      [] a = "Serial" -> "serial"
      [] a = "Raspberry" -> "raspberry"
      [] a = "Modem" -> "modem"
      [] a = "Pi" -> "pi"
      [] OTHER -> a
Lower(str) == [i \in DOMAIN str |-> LowerAtom(str[i])]

\* " ".join(filter(None, fields)), line 105: None and "" are both <<>>
RECURSIVE JoinFields(_)
JoinFields(fields) ==
    IF fields = <<>> THEN <<>>
    ELSE LET rest == JoinFields(Tail(fields)) IN
           IF Head(fields) = <<>> THEN rest
           ELSE IF rest = <<>> THEN Head(fields)
           ELSE Head(fields) \o <<" ">> \o rest

\* k in desc, line 110
Contains(str, k) ==
    \E i \in 1..(Len(str) - Len(k) + 1) : SubSeq(str, i, i + Len(k) - 1) = k

\* line 105
Desc(p) == Lower(JoinFields(<<p.description, p.product, p.manufacturer>>))

\* lines 100-112: whether the connection p is appended to results; reading
\* p.vid may raise, and vid is None then
IsCandidate(p) ==
    LET vid == IF p.vidRaises THEN NoVid ELSE p.vid IN
      \/ vid # NoVid /\ vid \in KnownVids
      \/ \E k \in Keywords : Contains(Desc(p), k)

\* the for loop of lines 99-112 over the connections cs
RECURSIVE Collect(_)
Collect(cs) ==
    IF cs = <<>> THEN <<>>
    ELSE IF IsCandidate(Head(cs)) THEN <<Head(cs).device>> \o Collect(Tail(cs))
    ELSE Collect(Tail(cs))

\* the except clause of line 113-114 returning what was collected so far
detect_kettle_ports_partial(lp) ==
    IF lp.missing THEN <<>>
    ELSE IF lp.raises # 0 THEN Collect(SubSeq(lp.comports, 1, lp.raises - 1))
    ELSE Collect(lp.comports)

\* detect_kettle_ports, lines 90-115.  lp is the state of list_ports:
\* missing when the import of line 24 failed, comports the connections in
\* the order of the platform, raises the position at which the enumeration
\* raises (comports() itself, the iterator, or reading the description of
\* the connection at that position), 0 when it does not
detect_kettle_ports(lp) ==
    IF lp.missing THEN <<>>
    ELSE IF lp.raises # 0 THEN <<>>
    ELSE Collect(lp.comports)

PortInfo(dev, vid, vidRaises, description, product, manufacturer) ==
    [device |-> dev, vid |-> vid, vidRaises |-> vidRaises,
     description |-> description, product |-> product,
     manufacturer |-> manufacturer]
\* connections a platform may enumerate: a Pico by its vendor id, a probe
\* named in capitals with a foreign vendor id, an adapter whose keyword
\* spans two fields, a modem, a board whose vendor id cannot be read, a
\* FTDI adapter named by nothing
PortInfos ==
    {PortInfo("COM3", 11914, FALSE, <<>>, <<>>, <<>>),
     PortInfo("COM4", 9025, FALSE, <<"Pico", "probe">>, <<>>, <<>>),
     PortInfo("COM5", NoVid, FALSE, <<"USB">>, <<"Serial">>, <<>>),
     PortInfo("COM1", NoVid, FALSE, <<"Modem">>, <<>>, <<>>),
     PortInfo("COM6", NoVid, TRUE, <<"Board">>, <<>>, <<"Raspberry", " ", "Pi">>),
     PortInfo("COM7", 1027, FALSE, <<"Modem">>, <<>>, <<>>)}
\* enumerations without a repeated connection
Enumerations(n) ==
    {cs \in SeqsUpTo(PortInfos, n) :
        \A i, j \in DOMAIN cs : i # j => cs[i] # cs[j]}
ListPorts(cs, k) == [missing |-> FALSE, comports |-> cs, raises |-> k]
NoListPorts == [missing |-> TRUE, comports |-> <<>>, raises |-> 0]
\* the states of list_ports detect_kettle_ports is applied to in LocSpec
LocInputs ==
    {NoListPorts}
    \cup UNION {{ListPorts(cs, k) : k \in 0..(Len(cs) + 1)} :
                   cs \in Enumerations(MaxPorts)}
\* the states of list_ports a run may meet
RunListPorts ==
    {NoListPorts,
     ListPorts(<<>>, 0),
     ListPorts(<<PortInfo("COM1", NoVid, FALSE, <<"Modem">>, <<>>, <<>>),
                 PortInfo("COM4", 9025, FALSE, <<"Pico", "probe">>, <<>>, <<>>),
                 PortInfo("COM3", 11914, FALSE, <<>>, <<>>, <<>>)>>, 0),
     ListPorts(<<PortInfo("COM3", 11914, FALSE, <<>>, <<>>, <<>>)>>, 2)}
\* values of SystemExit.code raised by the client: None, an integer n, or a
\* string that is not a number
ExitCodes == {[t |-> "none", n |-> 0], [t |-> "int", n |-> 0], [t |-> "int", n |-> 2],
              [t |-> "int", n |-> -1], [t |-> "str", n |-> 0]}
\* how the call runpy.run_module("mpremote") ends, when it ends
ClientOutcomes ==
    {[kind |-> k, code |-> [t |-> "none", n |-> 0]] : k \in {"return", "ImportError", "error"}}
    \cup {[kind |-> "exit", code |-> c] : c \in ExitCodes}
\* how subprocess.run ends
SubprocessOutcomes ==
    {[kind |-> "completed", returncode |-> n] : n \in {0, 1}}
    \cup {[kind |-> k, returncode |-> 0] : k \in {"TimeoutExpired", "OSError"}}
\* files the device may hold
Files == {"main.py"}

\* ------------------------------------------------------------------ state
VARIABLES
    run_button,     \* state of the "Update Kettle" button
    status_label,   \* text shown in the status label, with the log it names
    errorBoxes,     \* error boxes shown for the current run
    cleanupTimer,   \* _cleanup posted with master.after(2000, ...), pending
    timerDue,       \* the second before which the pending _cleanup cannot run
    pc,             \* position of the worker thread
    repo, branch, subfolder,    \* arguments of worker
    tmpdir, primary_log, ports, chosen_port, repo_root, sync_path, rc, mp_log,
    repo_url,       \* download_github_zip: the normalized repository reference
    exc,            \* exception raised in the worker
    call,           \* run_mpremote_inprocess: logpath, old_argv, old_stdout,
                    \* old_stderr of the call in flight
    sys,            \* sys.argv, sys.stdout, sys.stderr
    list_ports,     \* the state of list_ports detect_kettle_ports is applied to
                    \* in LocSpec; a run meets a state of its own at each
                    \* detection and keeps none
    now,            \* the wall clock, in seconds, when it was last read or
                    \* known: datetime.now() gives now or more
    workDirs,       \* ephemeral directories existing on local storage
    extracted,      \* the current run has extracted an archive
    topDirs,        \* top-level directories extracted by the current run
    tree,           \* directories under the root extracted by the current run
    logFiles,       \* log files existing on local storage
    logDirOk,       \* files can be created and opened in LOG_DIR
    sessionLines,   \* the lines of the session log of the current run
    truncated,      \* log files that existed when open(path, "w") created them
    clientCalls,    \* invocations of the mpremote client by the current run
    hang,           \* the client call in flight never returns
    importFailed,   \* the client module could not be loaded in the last call
    ceilingElapsed, \* 900 seconds have passed since the call in flight began
    devFiles,       \* files on the device
    devPre,         \* files on the device when the sync was invoked
    runNo,          \* runs started so far
    report,         \* terminal report of the current run
    cleaned,        \* _cleanup of the current run has executed
    fetchErr,       \* what the fetch stage raised in the current run: the
                    \* fetcher or the check of the sub-folder
    rmFailed,       \* a directory removal of the current run has failed
    written,        \* what write_log did in the current run
    active,         \* runs started whose _cleanup has not executed
    threads         \* worker threads alive

vars == <<run_button, status_label, errorBoxes, cleanupTimer, timerDue, pc,
          repo, branch, subfolder, tmpdir, primary_log, ports, chosen_port,
          repo_root, sync_path, rc, mp_log, repo_url, exc, call, sys, list_ports,
          now, workDirs, extracted, topDirs, tree, logFiles, logDirOk,
          sessionLines, truncated,
          clientCalls, hang, importFailed, ceilingElapsed, devFiles, devPre,
          runNo, report, cleaned, fetchErr, rmFailed, written, active, threads>>

guiVars == <<run_button, status_label, errorBoxes, cleanupTimer, timerDue>>
argVars == <<repo, branch, subfolder>>
localVars == <<tmpdir, primary_log, ports, chosen_port, repo_root, sync_path, rc,
               mp_log, repo_url, exc>>
procVars == <<call, sys, list_ports>>
fsVars == <<workDirs, extracted, topDirs, tree, logFiles, logDirOk, sessionLines,
            truncated>>
devVars == <<clientCalls, hang, importFailed, ceilingElapsed, devFiles, devPre>>
histVars == <<runNo, report, cleaned, fetchErr, rmFailed, written, active, threads>>

NoDir == 0
NoPath == [prefix |-> None, ts |-> 0, dir |-> None]
NoSyncPath == [dir |-> NoDir, top |-> None, sub |-> <<>>]
NoExc == [msg |-> None, arg |-> <<>>]
NoWrite == [path |-> NoPath, tries |-> <<>>]

\* the messages of lines 147 and 320
LayoutError == "Downloaded zip did not contain expected repository files"
SubfolderError == "Subfolder not found in the repo"

\* the delay of master.after(2000, _cleanup), line 357, in seconds
CleanupDelay == 2

\* datetime.now(), lines 57, 300 and 329: the wall clock does not run
\* backwards; readings beyond MaxTime are left out
Clock == now..MaxTime

\* new_log_path, lines 56-59, when datetime.now() gives the second t
new_log_path(prefix, t) == [prefix |-> prefix, ts |-> t, dir |-> "LOG_DIR"]

\* open(path, "w") or open(path, "a") succeeds on a path of LOG_DIR
CanOpen(path) == path.dir = "LOG_DIR" => logDirOk

\* write_log without the fallback of lines 72-77
write_log_no_retry(prefix, t, tmpOk) ==
    IF CanOpen(new_log_path(prefix, t))
    THEN [path |-> new_log_path(prefix, t), tries |-> <<"LOG_DIR">>]
    ELSE [path |-> NoPath, tries |-> <<"LOG_DIR">>]

\* write_log, lines 61-79, when datetime.now() gives t: the path returned, or
\* NoPath for None, and the directories in which the file was opened; tmpOk
\* tells whether the file can be written in the temporary directory
write_log(prefix, t, tmpOk) ==
    IF CanOpen(new_log_path(prefix, t))
    THEN [path |-> new_log_path(prefix, t), tries |-> <<"LOG_DIR">>]
    ELSE IF tmpOk
    THEN [path |-> [new_log_path(prefix, t) EXCEPT !.dir = "TMP"],
          tries |-> <<"LOG_DIR", "TMP">>]
    ELSE [path |-> NoPath, tries |-> <<"LOG_DIR", "TMP">>]

\* open(path, "w"), lines 68, 75 and 189: the files afterwards, and the files
\* that existed and lost their content
Created(files, path) == IF path = NoPath THEN files ELSE files \cup {path}
Truncated(files, path) ==
    IF path # NoPath /\ path \in files THEN truncated \cup {path} ELSE truncated

\* append_to_log, lines 81-86: open(path, "a") creates the file; a failure
\* is swallowed and leaves the files as they are
append_to_log(files, path) == IF CanOpen(path) THEN files \cup {path} ELSE files

\* the text of the file after append_to_log(path, line)
AppendLine(lines, path, line) == IF CanOpen(path) THEN Append(lines, line) ELSE lines

\* a line of the session log: what it tells, whether it carries a time, and
\* the path of the log it names
Line(tells, stamped, names) == [tells |-> tells, stamped |-> stamped, names |-> names]

\* set_status, lines 270-273, and show_error_box, lines 275-282: the callback
\* posted with master.after(0, ...) is taken as run when it is posted, the
\* main loop running the callbacks in the order of the posts
StatusMsg(text, log) == [text |-> text, log |-> log]

\* sys.argv, sys.stdout and sys.stderr of the updater process outside a call
ProcArgv == [target |-> None, cmd |-> "pico_updater", local_path |-> NoSyncPath]
ProcSys == [argv |-> ProcArgv, stdout |-> "stdout", stderr |-> "stderr"]
NoCall == [logpath |-> NoPath, old |-> ProcSys]

InitRest ==
    /\ run_button = "normal"
    /\ status_label = StatusMsg("Ready", NoPath)
    /\ errorBoxes = <<>>
    /\ cleanupTimer = FALSE /\ timerDue = 0
    /\ branch = "main" /\ subfolder = <<>>
    /\ tmpdir = NoDir /\ primary_log = NoPath /\ ports = <<>> /\ chosen_port = None
    /\ repo_root = None /\ sync_path = NoSyncPath /\ rc = 0 /\ mp_log = NoPath
    /\ repo_url = <<>> /\ exc = NoExc
    /\ call = NoCall /\ sys = ProcSys
    /\ now = 0
    /\ workDirs = {} /\ extracted = FALSE /\ topDirs = {} /\ tree = {} /\ logFiles = {}
    /\ logDirOk = TRUE
    /\ sessionLines = <<>> /\ truncated = {}
    /\ clientCalls = <<>> /\ hang = FALSE /\ importFailed = FALSE
    /\ ceilingElapsed = FALSE
    /\ devFiles = {} /\ devPre = {}
    /\ runNo = 0 /\ report = None
    /\ cleaned = FALSE /\ fetchErr = NoExc /\ rmFailed = FALSE
    /\ written = NoWrite /\ active = 0 /\ threads = 0

Init == pc = "idle" /\ repo = <<>> /\ list_ports = NoListPorts /\ InitRest

\* the button delivers its command although it is disabled
TriggerAlways == TRUE

\* Button(command=self.on_run), line 264: a click reaches on_run unless the
\* button is disabled
TriggerAccepted == run_button = "normal"

\* on_run, lines 284-294: r, b, s are the texts of the three entry fields.
\* The thread started at line 294 has fresh locals.
OnRun(r, b, s) ==
    /\ TriggerAccepted
    /\ IF r = <<>>
       THEN /\ status_label' = StatusMsg("Please enter a GitHub repo URL", NoPath)
            /\ UNCHANGED <<run_button, errorBoxes, pc, argVars, localVars, extracted,
                           topDirs, tree, sessionLines, devVars, histVars>>
       ELSE /\ runNo < MaxRuns
            /\ now <= MaxTime
            /\ run_button' = "disabled"
            /\ status_label' = StatusMsg("Starting update", NoPath)
            /\ repo' = r
            /\ branch' = IF b = "" THEN "main" ELSE b
            /\ subfolder' = StripSlash(s)
            /\ pc' = "start"
            /\ runNo' = runNo + 1
            /\ active' = active + 1
            /\ threads' = threads + 1
            /\ errorBoxes' = <<>>
            /\ report' = None /\ cleaned' = FALSE /\ fetchErr' = NoExc
            /\ rmFailed' = FALSE /\ written' = NoWrite
            /\ clientCalls' = <<>> /\ hang' = FALSE /\ importFailed' = FALSE
            /\ ceilingElapsed' = FALSE /\ devPre' = {}
            /\ tmpdir' = NoDir /\ primary_log' = NoPath /\ ports' = <<>>
            /\ chosen_port' = None
            /\ repo_root' = None /\ sync_path' = NoSyncPath /\ rc' = 0
            /\ mp_log' = NoPath /\ repo_url' = <<>> /\ exc' = NoExc
            /\ extracted' = FALSE /\ topDirs' = {} /\ tree' = {}
            /\ sessionLines' = <<>>
            /\ UNCHANGED devFiles
    /\ UNCHANGED <<cleanupTimer, timerDue, procVars, now, workDirs, logFiles, logDirOk,
                   truncated>>

\* worker, lines 297-301
WorkerStart ==
    /\ pc = "start"
    /\ tmpdir' = NoDir
    /\ \E t \in Clock :
         /\ now' = t
         /\ primary_log' = new_log_path("session", t)
         /\ logFiles' = append_to_log(logFiles, new_log_path("session", t))
         /\ sessionLines' = AppendLine(<<>>, new_log_path("session", t),
                                       Line("Start", TRUE, NoPath))
    /\ status_label' = StatusMsg("Detecting device", NoPath)
    /\ pc' = "detect"
    /\ UNCHANGED <<run_button, errorBoxes, cleanupTimer, timerDue, argVars,
                   ports, chosen_port, repo_root, sync_path, rc, mp_log, repo_url,
                   exc, procVars, workDirs, extracted, topDirs, tree, logDirOk,
                   truncated, devVars, histVars>>

\* lines 303-310 with the last connection found in place of the first
ChosenPortLast(found) == IF found # <<>> THEN found[Len(found)] ELSE None

\* worker, lines 303-310: the connection chosen among those found
ChosenPort(found) == IF found # <<>> THEN found[1] ELSE None

\* worker, lines 302-313
Detect ==
    /\ pc = "detect"
    /\ \E lp \in RunListPorts :
         /\ ports' = detect_kettle_ports(lp)
         /\ chosen_port' = ChosenPort(detect_kettle_ports(lp))
         /\ sessionLines' =
              AppendLine(sessionLines, primary_log,
                         IF detect_kettle_ports(lp) # <<>>
                         THEN Line("Detected ports", FALSE, NoPath)
                         ELSE Line("No ports auto-detected", FALSE, NoPath))
    /\ logFiles' = append_to_log(logFiles, primary_log)
    /\ status_label' = StatusMsg("Downloading GitHub repo", NoPath)
    /\ pc' = "fetch"
    /\ UNCHANGED <<run_button, errorBoxes, cleanupTimer, timerDue, argVars,
                   tmpdir, primary_log, repo_root, sync_path, rc, mp_log, repo_url,
                   exc, procVars, now, workDirs, extracted, topDirs, tree, logDirOk,
                   truncated, devVars, histVars>>

\* the directories under the extracted root, as far as the requested
\* sub-folder tells them apart: it is a directory there or it is not
Trees(sub) == IF sub = <<>> THEN {{}} ELSE {{}, {sub}}

\* download_github_zip with the check of line 146 left out: an archive
\* without a top-level directory yields the working directory and no root
download_github_zip_unchecked(url, d, mk, dl, ex, tops, pick, rmOk) ==
    IF ~mk THEN
        [exc |-> [msg |-> "OSError", arg |-> <<>>],
         tmpdir |-> NoDir, repo_root |-> None, left |-> FALSE]
    ELSE IF ~dl THEN
        [exc |-> [msg |-> "Failed to download repo zip", arg |-> url],
         tmpdir |-> NoDir, repo_root |-> None, left |-> ~rmOk]
    ELSE IF ~ex THEN
        [exc |-> [msg |-> "Failed to extract repo zip", arg |-> <<>>],
         tmpdir |-> NoDir, repo_root |-> None, left |-> ~rmOk]
    ELSE [exc |-> NoExc, tmpdir |-> d, repo_root |-> pick, left |-> TRUE]

\* download_github_zip, lines 117-149, on the fresh directory d.  mk, dl, ex:
\* mkdtemp, the download and the extraction succeed; tops: the top-level
\* directories of the extracted archive; pick: entries[0], os.listdir giving
\* no order; rmOk: shutil.rmtree(ignore_errors=True) removes the directory.
\* exc is the exception raised, left tells whether d exists afterwards.
download_github_zip(url, d, mk, dl, ex, tops, pick, rmOk) ==
    IF ~mk THEN
        [exc |-> [msg |-> "OSError", arg |-> <<>>],
         tmpdir |-> NoDir, repo_root |-> None, left |-> FALSE]
    ELSE IF ~dl THEN
        [exc |-> [msg |-> "Failed to download repo zip", arg |-> url],
         tmpdir |-> NoDir, repo_root |-> None, left |-> ~rmOk]
    ELSE IF ~ex THEN
        [exc |-> [msg |-> "Failed to extract repo zip", arg |-> <<>>],
         tmpdir |-> NoDir, repo_root |-> None, left |-> ~rmOk]
    ELSE IF tops = {} THEN
        [exc |-> [msg |-> LayoutError, arg |-> <<>>],
         tmpdir |-> NoDir, repo_root |-> None, left |-> TRUE]
    ELSE [exc |-> NoExc, tmpdir |-> d, repo_root |-> pick, left |-> TRUE]

\* the worker going on after a failure of the fetcher
AfterFetchGoesOn(res) == "resolve"

\* worker, line 314: an exception of the fetcher passes control to the
\* except clause at line 342
AfterFetch(res) == IF res.exc # NoExc THEN "except" ELSE "resolve"

\* worker, lines 314-315
Fetch ==
    /\ pc = "fetch"
    /\ repo_url' = NormalizeRepo(repo)
    /\ \E mk \in BOOLEAN, dl \in BOOLEAN, ex \in BOOLEAN, tops \in SUBSET TopNames,
          rmOk \in BOOLEAN, t \in Trees(subfolder) :
         \E pick \in (IF tops = {} THEN {None} ELSE tops) :
           LET res == download_github_zip(ZipUrl(repo, branch), runNo, mk, dl, ex,
                                          tops, pick, rmOk) IN
             /\ workDirs' = IF res.left THEN workDirs \cup {runNo} ELSE workDirs
             /\ extracted' = (mk /\ dl /\ ex)
             /\ topDirs' = IF mk /\ dl /\ ex THEN tops ELSE {}
             /\ tree' = IF res.exc = NoExc THEN t ELSE {}
             /\ fetchErr' = res.exc
             /\ rmFailed' = (mk /\ (~dl \/ ~ex) /\ res.left)
             /\ pc' = AfterFetch(res)
             /\ exc' = res.exc
             /\ tmpdir' = res.tmpdir
             /\ repo_root' = res.repo_root
             /\ logFiles' = IF res.exc = NoExc
                            THEN append_to_log(logFiles, primary_log)
                            ELSE logFiles
             /\ sessionLines' =
                  IF res.exc = NoExc
                  THEN AppendLine(sessionLines, primary_log,
                                  Line("Downloaded repo into", FALSE, NoPath))
                  ELSE sessionLines
    /\ UNCHANGED <<guiVars, argVars, primary_log, ports, chosen_port, sync_path, rc,
                   mp_log, procVars, now, logDirOk, truncated, devVars, runNo, report,
                   cleaned, written, active, threads>>

\* lines 316-321 with the root taken in place of a missing sub-folder
ResolveSyncPathFallsBack(dir, root, sub, t) ==
    IF sub # <<>> /\ sub \notin t
    THEN [exc |-> NoExc, path |-> [dir |-> dir, top |-> root, sub |-> <<>>]]
    ELSE [exc |-> NoExc, path |-> [dir |-> dir, top |-> root, sub |-> sub]]

\* worker, lines 316-321: the directory to sync, or the exception raised
ResolveSyncPath(dir, root, sub, t) ==
    IF sub # <<>> /\ sub \notin t
    THEN [exc |-> [msg |-> SubfolderError, arg |-> sub],
          path |-> NoSyncPath]
    ELSE [exc |-> NoExc, path |-> [dir |-> dir, top |-> root, sub |-> sub]]

\* run_mpremote_sync, lines 203-204
SyncArgv(local_path, port) ==
    [target |-> IF port = None THEN "auto" ELSE port, cmd |-> "sync",
     local_path |-> local_path]

\* worker, lines 316-324, run_mpremote_sync, lines 201-209, and
\* run_mpremote_inprocess, lines 158-171, up to the call of the client
InvokeSync ==
    /\ pc = "resolve"
    /\ LET res == ResolveSyncPath(tmpdir, repo_root, subfolder, tree) IN
         IF res.exc # NoExc
         THEN /\ exc' = res.exc
              /\ fetchErr' = res.exc
              /\ pc' = "except"
              /\ UNCHANGED <<status_label, sync_path, devVars, call, sys, now>>
         ELSE /\ sync_path' = res.path
              /\ status_label' = StatusMsg("Invoking mpremote (in-process)", NoPath)
              /\ clientCalls' = Append(clientCalls,
                                       [how |-> "inprocess",
                                        argv |-> SyncArgv(res.path, chosen_port)])
              /\ \E t \in Clock :
                   /\ now' = t
                   /\ call' = [logpath |-> new_log_path("mpremote", t), old |-> sys]
              /\ sys' = [argv |-> SyncArgv(res.path, chosen_port),
                         stdout |-> "sio_out", stderr |-> "sio_err"]
              /\ devPre' = devFiles
              /\ hang' \in BOOLEAN
              /\ pc' = "in_call"
              /\ UNCHANGED <<exc, fetchErr, importFailed, ceilingElapsed, devFiles>>
    /\ UNCHANGED <<run_button, errorBoxes, cleanupTimer, timerDue, argVars,
                   tmpdir, primary_log, ports, chosen_port, repo_root, rc, mp_log,
                   repo_url, list_ports, fsVars, runNo, report, cleaned, rmFailed,
                   written, active, threads>>

\* 900 seconds pass while the client runs in-process: runpy.run_module, line
\* 171, is called without a timeout (timeout_seconds is never read)
CeilingElapses ==
    /\ pc = "in_call"
    /\ ~ceilingElapsed
    /\ ceilingElapsed' = TRUE
    /\ UNCHANGED <<guiVars, pc, argVars, localVars, procVars, now, fsVars, clientCalls,
                   hang, importFailed, devFiles, devPre, histVars>>

\* run_mpremote_inprocess, line 175
ExitRc(code) ==
    IF code.t = "int" /\ code.n >= 0 THEN code.n
    ELSE IF code.t = "none" THEN 0
    ELSE 1

\* run_mpremote_inprocess without the return in its finally clause: what the
\* except clauses do not handle is raised to the caller
run_mpremote_inprocess_raising(outcome, logpath) ==
    [raised |-> outcome.kind \in {"ImportError", "error"},
     rc |-> CASE outcome.kind = "return" -> 0
              [] outcome.kind = "exit" -> ExitRc(outcome.code)
              [] OTHER -> 1,
     logpath |-> logpath]

\* run_mpremote_inprocess, lines 168-194: the return statement of the finally
\* clause ends the call normally on every path, so nothing is raised
run_mpremote_inprocess(outcome, logpath) ==
    [raised |-> FALSE,
     rc |-> CASE outcome.kind = "return" -> 0
              [] outcome.kind = "exit" -> ExitRc(outcome.code)
              [] OTHER -> 1,
     logpath |-> logpath]

\* lines 184-186 restoring only when the client returned normally
RestoreOnReturn(outcome, old, cur) == IF outcome.kind = "return" THEN old ELSE cur

\* run_mpremote_inprocess, the finally clause, lines 184-186
Restore(outcome, old, cur) == old

\* run_mpremote_sync, lines 207-239: fb is how the subprocess ends, if run,
\* and t the second in which the name of the fallback log is made
run_mpremote_sync(outcome, fb, logpath, t) ==
    LET r == run_mpremote_inprocess(outcome, logpath) IN
      IF ~r.raised
      THEN [rc |-> r.rc, logpath |-> r.logpath, fallback |-> FALSE]
      ELSE [rc |-> IF fb.kind = "completed" THEN fb.returncode ELSE 1,
            logpath |-> new_log_path("mpremote_fallback", t), fallback |-> TRUE]

\* the client call ends: run_mpremote_inprocess, lines 172-194, and
\* run_mpremote_sync, lines 210-239
SyncReturn ==
    /\ pc = "in_call"
    /\ ~hang
    /\ \E outcome \in ClientOutcomes, fb \in SubprocessOutcomes, files \in SUBSET Files :
         LET res == run_mpremote_sync(outcome, fb, call.logpath, now) IN
           /\ rc' = res.rc
           /\ mp_log' = res.logpath
           /\ sys' = Restore(outcome, call.old, sys)
           /\ logFiles' = IF CanOpen(call.logpath)
                          THEN Created(logFiles, call.logpath)
                          ELSE logFiles
           /\ truncated' = IF CanOpen(call.logpath)
                           THEN Truncated(logFiles, call.logpath)
                           ELSE truncated
           /\ clientCalls' = IF res.fallback
                             THEN Append(clientCalls,
                                         [how |-> "subprocess",
                                          argv |-> SyncArgv(sync_path, chosen_port)])
                             ELSE clientCalls
           /\ devFiles' = IF outcome.kind = "ImportError" THEN devFiles ELSE files
           /\ importFailed' = (outcome.kind = "ImportError")
    /\ call' = NoCall
    /\ ceilingElapsed' = FALSE
    /\ pc' = "classify"
    /\ UNCHANGED <<guiVars, argVars, tmpdir, primary_log, ports, chosen_port, repo_root,
                   sync_path, repo_url, exc, list_ports, now, workDirs, extracted,
                   topDirs, tree, logDirOk, sessionLines, hang, devPre, histVars>>

\* line 326 with the test rc != 1
OutcomeNotOne(status) == IF status # 1 THEN "done" ELSE "sync_failed"

\* worker, line 326
Outcome(status) == IF status = 0 THEN "done" ELSE "sync_failed"

\* _cleanup posted without a delay
DueAtOnce(t, delay) == t

\* master.after(2000, _cleanup), line 357, posted in the second t: the second
\* before which _cleanup cannot run, seconds beyond MaxTime taken as one
Due(t, delay) == IF t + delay > MaxTime THEN MaxTime + 1 ELSE t + delay

\* show_error_box showing nothing
show_no_error_box(boxes, text, log) == boxes

\* show_error_box, lines 275-282, called at lines 340 and 347
show_error_box(boxes, text, log) == Append(boxes, StatusMsg(text, log))

\* line 325 without the path of the log of the client
SyncResultLineBare(log) == Line("mpremote return code", FALSE, NoPath)

\* worker, line 325: the status of the sync and the path of the client's log
SyncResultLine(log) == Line("mpremote return code", FALSE, log)

\* worker, lines 325-340, and the finally clause, lines 348-357: _cleanup is
\* posted with a delay of 2000 ms and the thread ends
Classify ==
    /\ pc = "classify"
    /\ LET told == AppendLine(sessionLines, primary_log, SyncResultLine(mp_log)) IN
         IF Outcome(rc) = "done"
         THEN \E tmpOk \in BOOLEAN, t \in Clock :
                LET w == write_log("success", t, tmpOk) IN
                  /\ status_label' = StatusMsg("done!", NoPath)
                  /\ sessionLines' = AppendLine(told, primary_log,
                                                Line("Success!", FALSE, NoPath))
                  /\ logFiles' = Created(append_to_log(logFiles, primary_log), w.path)
                  /\ truncated' = Truncated(logFiles, w.path)
                  /\ written' = w
                  /\ now' = t
                  /\ timerDue' = Due(t, CleanupDelay)
                  /\ UNCHANGED errorBoxes
         ELSE /\ status_label' = StatusMsg("Error during sync", primary_log)
              /\ errorBoxes' = show_error_box(errorBoxes, "Sync failed", primary_log)
              /\ sessionLines' =
                   AppendLine(AppendLine(told, primary_log,
                                         Line("mpremote output", FALSE, NoPath)),
                              primary_log,
                              IF mp_log \in logFiles
                              THEN Line("mpremote full log", FALSE, NoPath)
                              ELSE Line("Could not read mpremote log", FALSE, mp_log))
              /\ logFiles' = append_to_log(logFiles, primary_log)
              /\ timerDue' = Due(now, CleanupDelay)
              /\ UNCHANGED <<truncated, written, now>>
    /\ report' = Outcome(rc)
    /\ cleanupTimer' = TRUE
    /\ threads' = threads - 1
    /\ pc' = "done"
    /\ UNCHANGED <<run_button, argVars, localVars, procVars, workDirs, extracted,
                   topDirs, tree, logDirOk, devVars, runNo, cleaned, fetchErr,
                   rmFailed, active>>

\* lines 346-347 naming the session log in every case
ShownLogPrimary(errpath, primary) == primary

\* worker, lines 346-347: errpath or primary_log
ShownLog(errpath, primary) == IF errpath # NoPath THEN errpath ELSE primary

\* worker, the except clause, lines 342-347, and the finally clause, lines
\* 348-357
HandleException ==
    /\ pc = "except"
    /\ \E tmpOk \in BOOLEAN, t \in Clock :
         LET w == write_log("exception", t, tmpOk) IN
           /\ sessionLines' = AppendLine(sessionLines, primary_log,
                                         Line("EXCEPTION", FALSE, NoPath))
           /\ logFiles' = Created(append_to_log(logFiles, primary_log), w.path)
           /\ truncated' = Truncated(logFiles, w.path)
           /\ written' = w
           /\ now' = t
           /\ timerDue' = Due(t, CleanupDelay)
           /\ status_label' = StatusMsg("Error", ShownLog(w.path, primary_log))
           /\ errorBoxes' = show_error_box(errorBoxes, "An error occurred",
                                            ShownLog(w.path, primary_log))
    /\ report' = "exception"
    /\ cleanupTimer' = TRUE
    /\ threads' = threads - 1
    /\ pc' = "done"
    /\ UNCHANGED <<run_button, argVars, localVars, procVars, workDirs, extracted,
                   topDirs, tree, logDirOk, devVars, runNo, cleaned, fetchErr,
                   rmFailed, active>>

\* _cleanup, lines 349-355, run by the Tk main loop when its timer is due;
\* the locals of the worker and the closure are gone afterwards
Cleanup ==
    /\ cleanupTimer
    /\ \E rmOk \in BOOLEAN :
         LET present == tmpdir # NoDir /\ tmpdir \in workDirs IN
           /\ workDirs' = IF present /\ rmOk THEN workDirs \ {tmpdir} ELSE workDirs
           /\ rmFailed' = (rmFailed \/ (present /\ ~rmOk))
    /\ now' = IF timerDue > now THEN timerDue ELSE now
    /\ run_button' = "normal"
    /\ cleanupTimer' = FALSE
    /\ cleaned' = TRUE
    /\ active' = active - 1
    /\ pc' = "idle"
    /\ repo' = <<>> /\ branch' = "main" /\ subfolder' = <<>>
    /\ tmpdir' = NoDir /\ primary_log' = NoPath /\ ports' = <<>> /\ chosen_port' = None
    /\ repo_root' = None /\ sync_path' = NoSyncPath /\ rc' = 0
    /\ mp_log' = NoPath /\ repo_url' = <<>> /\ exc' = NoExc
    /\ UNCHANGED <<status_label, errorBoxes, timerDue, procVars, extracted, topDirs,
                   tree, logFiles, logDirOk, sessionLines, truncated, devVars, runNo,
                   report, fetchErr, written, threads>>

\* the log directory stops being writable (removed, disk full, permissions);
\* the model lets this happen between runs only
LogDirBreaks ==
    /\ logDirOk
    /\ pc = "idle"
    /\ logDirOk' = FALSE
    /\ UNCHANGED <<guiVars, pc, argVars, localVars, procVars, now, workDirs, extracted,
                   topDirs, tree, logFiles, sessionLines, truncated, devVars, histVars>>

Next ==
    \/ \E r \in RepoInputs, b \in BranchInputs, s \in SubInputs : OnRun(r, b, s)
    \/ WorkerStart
    \/ Detect
    \/ Fetch
    \/ InvokeSync
    \/ CeilingElapses
    \/ SyncReturn
    \/ Classify
    \/ HandleException
    \/ Cleanup
    \/ LogDirBreaks

Spec == Init /\ [][Next]_vars

\* the scheduler runs the worker thread whenever it can take a step, and the
\* Tk main loop runs _cleanup once its timer is due; the client call returns
\* only if the client does
Fairness ==
    /\ WF_vars(WorkerStart) /\ WF_vars(Detect) /\ WF_vars(Fetch)
    /\ WF_vars(InvokeSync) /\ WF_vars(SyncReturn) /\ WF_vars(Classify)
    /\ WF_vars(HandleException) /\ WF_vars(Cleanup)

LiveSpec == Init /\ [][Next]_vars /\ Fairness

\* --------------------------------------------- normalization on its own
\* download_github_zip, lines 122-126, applied to every reference of
\* RefInputs, and applied again to its own result
NormInit == pc = "norm" /\ repo \in RefInputs /\ list_ports = NoListPorts /\ InitRest

Normalize ==
    /\ pc = "norm"
    /\ repo_url' = NormalizeRepo(repo)
    /\ pc' = "normed"
    /\ UNCHANGED <<guiVars, argVars, tmpdir, primary_log, ports, chosen_port, repo_root,
                   sync_path, rc, mp_log, exc, procVars, now, fsVars, devVars,
                   histVars>>

Renormalize ==
    /\ pc = "normed"
    /\ repo_url' = NormalizeRepo(repo_url)
    /\ pc' = "renormed"
    /\ UNCHANGED <<guiVars, argVars, tmpdir, primary_log, ports, chosen_port, repo_root,
                   sync_path, rc, mp_log, exc, procVars, now, fsVars, devVars,
                   histVars>>

NormNext == Normalize \/ Renormalize

NormSpec == NormInit /\ [][NormNext]_vars

\* ------------------------------------------------ the locator on its own
\* detect_kettle_ports, lines 90-115, applied to every state of list_ports
\* of LocInputs
LocInit == pc = "locate" /\ repo = <<>> /\ list_ports \in LocInputs /\ InitRest

Locate ==
    /\ pc = "locate"
    /\ ports' = detect_kettle_ports(list_ports)
    /\ pc' = "located"
    /\ UNCHANGED <<guiVars, argVars, tmpdir, primary_log, chosen_port, repo_root,
                   sync_path, rc, mp_log, repo_url, exc, procVars, now, fsVars,
                   devVars, histVars>>

LocNext == Locate

LocSpec == LocInit /\ [][LocNext]_vars

\* ---------------------------------------------------------------- claims
\* the session log files carrying the timestamp of the current run
SessionLogs == {f \in logFiles : f.prefix = "session" /\ f.ts = primary_log.ts}
added == devFiles \ devPre
removed == devPre \ devFiles
WorkerPast(stage) ==
    CASE stage = "fetch" -> pc \in {"resolve", "in_call", "classify", "except", "done"}
      [] stage = "sync" -> pc \in {"classify", "done"} /\ clientCalls # <<>>

\* C1, as stated: a finished sync is reported Failed when its status is not 0,
\* Done(Changed) when its status is 0 and the device listing changed, and a
\* distinct Done(Unchanged) when its status is 0 and the listing did not
\* change.  "done" is the report the code gives a changed device.
C1_ThreeOutcomes ==
    (pc = "done" /\ report # "exception") =>
        report = IF rc # 0 THEN "sync_failed"
                 ELSE IF added # {} \/ removed # {} THEN "done"
                 ELSE "unchanged"

\* C1, amended: a finished sync is reported Failed (error status and error
\* box naming the session log) when its status is not 0 and Done (status
\* "done!", no error box) when its status is 0, whatever happened to the
\* files of the device.
C1_StatusAlone ==
    (pc = "done" /\ report # "exception") =>
        /\ rc # 0 => /\ report = "sync_failed"
                     /\ status_label = StatusMsg("Error during sync", primary_log)
                     /\ errorBoxes = <<StatusMsg("Sync failed", primary_log)>>
        /\ rc = 0 => /\ report = "done"
                     /\ status_label = StatusMsg("done!", NoPath)
                     /\ errorBoxes = <<>>

\* a sync with status 0 that left the device as it was, reported "done"
C1_Witness ==
    pc = "done" /\ clientCalls # <<>> /\ rc = 0 /\ added = {} /\ removed = {}
    /\ report = "done"

\* C2: once _cleanup of a run has executed, the working directory the run
\* created does not exist (here: even when no removal has failed).
C2_NoWorkDirLeft == (cleaned /\ ~rmFailed) => runNo \notin workDirs

\* C3: when the fetch stage fails (download, extraction, archive layout,
\* sub-folder), the run goes to the exception report without invoking the
\* client, and _cleanup is posted when the worker ends and has executed
\* when the run is over.
C3_FetchFailureSkipsSync ==
    fetchErr # NoExc =>
        /\ clientCalls = <<>>
        /\ pc \in {"except", "done", "idle"}
        /\ pc = "done" => (report = "exception" /\ cleanupTimer)
        /\ pc = "idle" => (report = "exception" /\ cleaned)

\* a run whose fetch failed on the archive layout, after its cleanup
C3_Witness == fetchErr.msg = LayoutError /\ cleaned /\ pc = "idle"

\* an SSH-style reference: the prefix git@github.com: once, at the start
SshStyle(r) == StartsWithSsh(r) /\ \A i \in 2..Len(r) : r[i] # SSH

C4_SshAsWeb == (pc = "normed" /\ SshStyle(repo)) => repo_url = NormalizeRepo(WebForm(repo))

\* C4: normalizing a normalized reference changes nothing, and an SSH-style
\* reference normalizes to the same value as its web form.
C4_NormalizeIdempotent ==
    /\ pc = "renormed" => repo_url = NormalizeRepo(repo)
    /\ C4_SshAsWeb

\* C5: when the in-process call cannot load the client module, the client is
\* invoked again out of process.
C5_FallbackWhenUnavailable ==
    (WorkerPast("sync") /\ importFailed) =>
        \E i \in DOMAIN clientCalls : clientCalls[i].how = "subprocess"

\* C6: a client call in flight does not outlast the ceiling of 900 seconds.
C6_TimeoutEnforced == ~(pc = "in_call" /\ ceilingElapsed)

\* C7: the directory passed to the client is root/sub-folder when a sub-folder
\* is requested and the root otherwise; a requested sub-folder that is not a
\* directory under the root raises an error naming it and nothing is synced.
C7_SubPathOrFail ==
    /\ pc \in {"in_call", "classify", "done"} =>
         \A i \in DOMAIN clientCalls :
            /\ clientCalls[i].argv.local_path =
                  [dir |-> tmpdir, top |-> repo_root, sub |-> subfolder]
            /\ subfolder # <<>> => subfolder \in tree
    /\ (pc \in {"except", "done"} /\ tmpdir # NoDir /\ subfolder # <<>>
        /\ subfolder \notin tree) =>
         /\ exc = [msg |-> SubfolderError, arg |-> subfolder]
         /\ clientCalls = <<>>

\* a sync of a requested sub-folder
C7_Witness ==
    pc = "classify" /\ subfolder # <<>> /\ clientCalls # <<>>
    /\ sync_path = [dir |-> tmpdir, top |-> repo_root, sub |-> subfolder]

\* C8, as stated: a run that synced has listed the device before and after
\* the sync.
C8_ListingsCaptured ==
    (pc = "done" /\ report # "exception") =>
        \E i, j, k \in DOMAIN clientCalls :
            /\ i < j /\ j < k
            /\ clientCalls[i].argv.cmd = "ls"
            /\ clientCalls[j].argv.cmd = "sync"
            /\ clientCalls[k].argv.cmd = "ls"

\* C8, amended: a run lists nothing: the only client invocation of a run is
\* one sync, made by every run whose fetch stage succeeded.
C8_SyncOnly ==
    /\ Len(clientCalls) <= 1
    /\ \A i \in DOMAIN clientCalls : clientCalls[i].argv.cmd = "sync"
    /\ (pc = "done" /\ report # "exception") => Len(clientCalls) = 1

\* a finished run that changed the files of the device with its one call
C8_Witness ==
    pc = "done" /\ Len(clientCalls) = 1 /\ added # {} /\ rc = 0

\* C9: a run whose worker has ended has produced exactly one session log
\* file.
C9_OneSessionLog == pc = "done" => Cardinality(SessionLogs) = 1

\* C10: an archive extracted with exactly one top-level directory has that
\* directory as root; one with no top-level directory fails with the layout
\* error and yields no root.
C10_RootResolution ==
    (extracted /\ WorkerPast("fetch")) =>
        /\ Cardinality(topDirs) = 1 =>
              (topDirs = {repo_root} /\ fetchErr.msg \in {None, SubfolderError})
        /\ topDirs = {} =>
              (repo_root = None /\ tmpdir = NoDir /\ fetchErr.msg = LayoutError
               /\ exc = fetchErr)

\* an archive without a top-level directory has been extracted
C10_Witness == extracted /\ topDirs = {} /\ pc = "except"

\* C11: whatever the locator returns, the worker goes on to the fetch without
\* an exception; every client call of the run connects to the first of the
\* connections the locator returned, and to "auto" when it returned none.
C11_FirstOrAuto ==
    /\ pc = "fetch" => exc = NoExc
    /\ pc \in {"in_call", "classify", "done"} =>
         \A i \in DOMAIN clientCalls :
            clientCalls[i].argv.target = IF ports = <<>> THEN "auto" ELSE ports[1]

\* a sync invoked after the locator returned two connections
C11_Witness ==
    pc = "in_call" /\ Len(ports) = 2 /\ ports[1] # ports[2]
    /\ clientCalls[1].argv.target = ports[1]

\* the connection p has a known vendor id, or a description that holds a
\* keyword once its letters are folded to lower case
Selected(p) ==
    \/ ~p.vidRaises /\ p.vid \in KnownVids
    \/ \E k \in Keywords : Contains(Desc(p), k)

\* C12: the locator returns the devices of the selected connections, in the
\* order of the enumeration and each once; it returns the empty sequence
\* when list_ports is missing or the enumeration raises, whatever had been
\* collected by then.
C12_LocatorFilter ==
    pc = "located" =>
        IF list_ports.missing \/ list_ports.raises # 0 THEN ports = <<>>
        ELSE LET cs == list_ports.comports
                 idx == {i \in DOMAIN cs : Selected(cs[i])}
             IN  /\ Len(ports) = Cardinality(idx)
                 /\ \A j \in DOMAIN ports :
                       \E i \in idx : /\ Cardinality({k \in idx : k < i}) = j - 1
                                      /\ ports[j] = cs[i].device
                 /\ \A j1, j2 \in DOMAIN ports : j1 # j2 => ports[j1] # ports[j2]

\* the enumeration raised at its second connection, the first one being a
\* candidate
C12_Witness ==
    pc = "located" /\ list_ports.raises = 2 /\ Len(list_ports.comports) = 2
    /\ Selected(list_ports.comports[1]) /\ ports = <<>>

\* C13, as stated: a run in which an exception was raised ends Failed with
\* the exception written to an exception log, which is not the session log,
\* and with an error box naming the path of that exception log.
C13_ExceptionLogged ==
    (pc = "done" /\ exc # NoExc) =>
        /\ report = "exception"
        /\ written.path \in logFiles
        /\ written.path.prefix = "exception"
        /\ written.path # primary_log
        /\ errorBoxes = <<StatusMsg("An error occurred", written.path)>>

\* C13, amended: a run in which an exception was raised ends Failed with one
\* error box and the status "Error", both naming the same log: the exception
\* log, which is not the session log, when write_log could create it in
\* LOG_DIR or in the temporary directory, and the session log when it could
\* not, no exception log existing then.
C13_ExceptionReported ==
    (pc = "done" /\ exc # NoExc) =>
        /\ report = "exception"
        /\ Len(errorBoxes) = 1
        /\ errorBoxes[1].text = "An error occurred"
        /\ status_label = StatusMsg("Error", errorBoxes[1].log)
        /\ IF written.path # NoPath
           THEN /\ written.path \in logFiles
                /\ written.path.prefix = "exception"
                /\ written.path # primary_log
                /\ errorBoxes[1].log = written.path
           ELSE /\ written.tries = <<"LOG_DIR", "TMP">>
                /\ errorBoxes[1].log = primary_log

\* a run ended by an exception of which no exception log could be written
C13_Witness ==
    pc = "done" /\ report = "exception" /\ written.path = NoPath
    /\ errorBoxes = <<StatusMsg("An error occurred", primary_log)>>

\* C14: write_log opens the new file in LOG_DIR and, only when that fails,
\* once in the temporary directory; it returns the path it wrote or None,
\* a path being returned whenever one of the two could be written.  No
\* failure of write_log or append_to_log raises: the only exception of a run
\* is the one of its fetch stage, and a run without one ends by its
\* classification.
C14_LoggingNeverAborts ==
    /\ exc = fetchErr \/ pc = "idle"
    /\ pc = "done" =>
         /\ report = "exception" <=> fetchErr # NoExc
         /\ written # NoWrite =>
               /\ written.tries = IF logDirOk THEN <<"LOG_DIR">>
                                  ELSE <<"LOG_DIR", "TMP">>
               /\ written.path # NoPath =>
                     /\ written.path \in logFiles
                     /\ written.path.dir = written.tries[Len(written.tries)]
               /\ written.path = NoPath => ~logDirOk

\* a run reported done of which neither the session log nor the success log
\* could be written
C14_Witness ==
    pc = "done" /\ report = "done" /\ ~logDirOk /\ written.path = NoPath
    /\ written.tries = <<"LOG_DIR", "TMP">> /\ sessionLines = <<>>

\* the lines the worker appends: line 300, lines 307 and 311, line 315
StartLine == Line("Start", TRUE, NoPath)
DetectedLine ==
    Line(IF ports = <<>> THEN "No ports auto-detected" ELSE "Detected ports", FALSE, NoPath)
DownloadedLine == Line("Downloaded repo into", FALSE, NoPath)
FetchedLines ==
    <<StartLine, DetectedLine>> \o (IF tmpdir # NoDir THEN <<DownloadedLine>> ELSE <<>>)

\* C15, as stated: when the worker is about to invoke the action of a stage
\* (detecting, fetching, syncing), the last line of the session log is a
\* timestamped line appended for that stage.
C15_LineBeforeEachStage ==
    (logDirOk /\ pc \in {"detect", "fetch", "in_call"}) =>
        /\ sessionLines # <<>>
        /\ sessionLines[Len(sessionLines)].stamped

\* C15, amended: in a run whose session log can be written, the log holds
\* one timestamped line, "Start", appended before the detection; the result
\* of each stage that returned follows without a timestamp: the connections
\* found or the use of "auto", the download, the status of the sync with the
\* path of the client's log; nothing is appended before the fetch or the
\* sync is invoked, and a failed stage leaves the entry "EXCEPTION".
C15_ResultLines ==
    logDirOk =>
        /\ pc = "detect" => sessionLines = <<StartLine>>
        /\ pc = "fetch" => sessionLines = <<StartLine, DetectedLine>>
        /\ pc \in {"resolve", "in_call", "classify"} =>
              sessionLines = <<StartLine, DetectedLine, DownloadedLine>>
        /\ pc = "except" => sessionLines = FetchedLines
        /\ (pc = "done" /\ report = "exception") =>
              sessionLines = FetchedLines \o <<Line("EXCEPTION", FALSE, NoPath)>>
        /\ (pc = "done" /\ report = "done") =>
              sessionLines = <<StartLine, DetectedLine, DownloadedLine,
                               Line("mpremote return code", FALSE, mp_log),
                               Line("Success!", FALSE, NoPath)>>
        /\ (pc = "done" /\ report = "sync_failed") =>
              sessionLines = <<StartLine, DetectedLine, DownloadedLine,
                               Line("mpremote return code", FALSE, mp_log),
                               Line("mpremote output", FALSE, NoPath),
                               Line("mpremote full log", FALSE, NoPath)>>
        /\ pc = "done" => mp_log \in logFiles \/ mp_log = NoPath

\* the sync is invoked, the last line of the session log being the result of
\* the fetch
C15_Witness ==
    pc = "in_call" /\ logDirOk /\ Len(sessionLines) = 3
    /\ sessionLines[3] = DownloadedLine /\ ~sessionLines[3].stamped

C17_OneRunActive ==
    /\ active \in {0, 1}
    /\ threads \in {0, 1}
    /\ threads <= active
    /\ active = 1 <=> run_button = "disabled"
    /\ active = 1 => ~ENABLED (\E r \in RepoInputs, b \in BranchInputs, s \in SubInputs :
                                  OnRun(r, b, s))
    /\ active = 0 <=> pc = "idle"

\* the second run has been started, the first one being cleaned up
C17_Witness == runNo = 2 /\ active = 1 /\ threads = 1 /\ pc = "in_call"

\* C18: the button disabled by on_run is eventually enabled again, and it
\* is enabled again only by the step that has attempted the removal of the
\* working directory of the run.
C18_ButtonReenabled ==
    /\ (run_button = "disabled") ~> (run_button = "normal")
    /\ [][(run_button = "disabled" /\ run_button' = "normal") => cleaned']_vars

\* C19: outside a call of run_mpremote_inprocess, sys.argv, sys.stdout and
\* sys.stderr hold the values of the updater process: however the client
\* ended, the call has put back what it replaced; during the call they hold
\* the argument vector of mpremote and the two buffers.
C19_SysRestored ==
    /\ pc # "in_call" => (sys = ProcSys /\ call = NoCall)
    /\ pc = "in_call" => (call.old = ProcSys /\ sys.argv = clientCalls[1].argv
                          /\ sys.stdout = "sio_out" /\ sys.stderr = "sio_err")

\* the client could not be loaded, the call has returned status 1
C19_Witness ==
    pc = "classify" /\ importFailed /\ rc = 1 /\ sys = ProcSys

\* the success log of the current run exists
SuccessLogged ==
    written.path # NoPath /\ written.path.prefix = "success" /\ written.path \in logFiles

\* C20, as stated: a finished run has the success report, the status
\* "done!" and a success log, exactly when its sync returned 0 and nothing
\* was raised, and one error box and no success report otherwise.
C20_OneOutcomeWithLog ==
    pc = "done" =>
        /\ (status_label.text = "done!" /\ SuccessLogged)
             <=> (clientCalls # <<>> /\ rc = 0 /\ exc = NoExc)
        /\ ~(clientCalls # <<>> /\ rc = 0 /\ exc = NoExc) => Len(errorBoxes) = 1
        /\ ~(SuccessLogged /\ errorBoxes # <<>>)

\* C20, amended: a finished run shows the status "done!", shows no error
\* box and has called write_log for a success log exactly when its sync
\* returned 0 and nothing was raised, the success log existing then if the
\* log directory or the temporary directory can be written; otherwise it
\* shows exactly one error box and an error status and has no success log.
C20_OneOutcome ==
    pc = "done" =>
        LET ok == clientCalls # <<>> /\ rc = 0 /\ exc = NoExc IN
          /\ report = "done" <=> ok
          /\ ok =>
               /\ status_label = StatusMsg("done!", NoPath)
               /\ errorBoxes = <<>>
               /\ written # NoWrite
               /\ SuccessLogged <=> written.path # NoPath
               /\ logDirOk => SuccessLogged
          /\ ~ok =>
               /\ Len(errorBoxes) = 1
               /\ status_label.text \in {"Error during sync", "Error"}
               /\ ~SuccessLogged
               /\ report \in {"sync_failed", "exception"}
               /\ report = "exception" <=> exc # NoExc

\* a run reported done whose success log could not be written
C20_Witness ==
    pc = "done" /\ report = "done" /\ status_label.text = "done!"
    /\ written.path = NoPath /\ written.tries # <<>> /\ errorBoxes = <<>>

====
